---------------------------- MODULE Spec2Model ----------------------------
(***************************************************************************)
(* Model of sw/airborne/modules/air_data/air_data.c (paparazzi).           *)
(*                                                                         *)
(* Floats are modelled in fixed point:                                     *)
(*   pressure, differential   Pa                                           *)
(*   temperature              1/100 degree Celsius                         *)
(*   tas_factor               1/1000                                       *)
(*   airspeed, EAS            dm/s                                         *)
(*   qnh                      1/100 hPa                                    *)
(*   altitudes                m                                            *)
(* The two non-finite float results the code can produce (a division by a  *)
(* zero pressure, the root of a negative ratio) are the values FInf, FNaN. *)
(***************************************************************************)
EXTENDS Integers, Sequences, FiniteSets, TLC

\* ------------------------------------------------------------------------
\* Inputs delivered by the environment
\* ------------------------------------------------------------------------

\* absolute pressure samples (Pa), a dead sensor reading 0 included
AbsSamples == {0, 95461, 101325}

\* differential pressure samples (Pa)
DiffSamples == {-20, 647}

\* temperature samples (1/100 degree Celsius)
TempSamples == {1500}

\* values given to air_data_SetQNH (1/100 hPa)
QnhValues == {100000}

\* altitudes of the global position store (m)
AltValues == {0, 500}

\* the history stops counting writes at MaxCount
MaxCount == 2

\* ------------------------------------------------------------------------
\* Float helpers
\* ------------------------------------------------------------------------

FInf == 1073741824

FNaN == 1073741825

Max(a, b) == IF a > b THEN a ELSE b

\* a / b rounded to nearest, b > 0, a >= 0
RDiv(a, b) == (2 * a + b) \div (2 * b)

RECURSIVE SqrtSearch(_, _, _)
SqrtSearch(n, lo, hi) ==
  IF lo >= hi THEN lo
  ELSE LET mid == (lo + hi + 1) \div 2
       IN  IF mid * mid <= n THEN SqrtSearch(n, mid, hi)
           ELSE SqrtSearch(n, lo, mid - 1)

\* sqrtf on a non-negative fixed-point radicand (floor of the root)
sqrtf(n) == SqrtSearch(n, 0, 46340)

\* float product of a 1/1000 factor and a finite non-negative value
FMul(f, x) ==
  IF f = FNaN THEN FNaN
  ELSE IF f = FInf THEN (IF x = 0 THEN FNaN ELSE FInf)
  ELSE (f * x) \div 1000

\* ------------------------------------------------------------------------
\* math/pprz_isa.h
\* ------------------------------------------------------------------------

PPRZ_ISA_SEA_LEVEL_PRESSURE == 101325

\* 288.15 K, in 1/100 K
PPRZ_ISA_SEA_LEVEL_TEMP == 28815

\* ISA pressure ratio p/p0 (1/1000) at the altitudes -500 m, 0 m, .. 2000 m
IsaTable == << <<-500, 1061>>, <<0, 1000>>, <<500, 942>>,
               <<1000, 887>>, <<1500, 835>>, <<2000, 785>> >>

\* pressure ratio (1/1000) at height h, linear between the table's nodes
IsaRatioOfHeight(h) ==
  LET n == Len(IsaTable)
      i == IF h <= IsaTable[1][1] THEN 1
           ELSE IF h >= IsaTable[n][1] THEN n - 1
           ELSE CHOOSE k \in 1..(n - 1) :
                  IsaTable[k][1] <= h /\ h < IsaTable[k + 1][1]
      h0 == IsaTable[i][1]
      h1 == IsaTable[i + 1][1]
      r0 == IsaTable[i][2]
      r1 == IsaTable[i + 1][2]
  IN  r0 - RDiv((h - h0) * (r0 - r1), h1 - h0)

\* height (m) at pressure ratio r (1/1000), linear between the table's nodes
IsaHeightOfRatio(r) ==
  LET n == Len(IsaTable)
      i == IF r >= IsaTable[1][2] THEN 1
           ELSE IF r <= IsaTable[n][2] THEN n - 1
           ELSE CHOOSE k \in 1..(n - 1) :
                  IsaTable[k][2] >= r /\ r > IsaTable[k + 1][2]
      h0 == IsaTable[i][1]
      h1 == IsaTable[i + 1][1]
      r0 == IsaTable[i][2]
      r1 == IsaTable[i + 1][2]
  IN  h0 + RDiv((r0 - r) * (h1 - h0), r0 - r1)

\* height (m) of a pressure (Pa) above the level of pressure ref_p (Pa)
pprz_isa_height_of_pressure_full(pressure, ref_p) ==
  IF pressure > 0 /\ ref_p > 0
  THEN IsaHeightOfRatio(RDiv(pressure * 1000, ref_p))
  ELSE 0

\* reference pressure (Pa) for which `pressure` is met at `height`
pprz_isa_ref_pressure_of_height_full(pressure, height) ==
  RDiv(pressure * 1000, IsaRatioOfHeight(height))


\* ------------------------------------------------------------------------
\* Configuration (air_data.c, #ifndef defaults)
\* ------------------------------------------------------------------------

\* AIR_DATA_TAS_FACTOR 1.0
AIR_DATA_TAS_FACTOR == 1000

\* the value pressure_abs_cb resets baro_health_counter to
BaroHealthyCount == 10

\* ------------------------------------------------------------------------
\* State
\* ------------------------------------------------------------------------

VARIABLES
  air_data,             \* struct AirData air_data
  qnh_set,              \* static bool_t qnh_set
  baro_health_counter,  \* static uint8_t baro_health_counter
  state,                \* state.h: LLA altitude, validity of it, airspeed slot
  abi,                  \* ABI bindings: message -> callbacks bound to it
  hist                  \* history of the run, read by the properties only

vars == <<air_data, qnh_set, baro_health_counter, state, abi, hist>>

AbiMessages == {"BARO_ABS", "BARO_DIFF", "TEMPERATURE"}

\* the memory the callbacks and the entry points work on
Mem == [air_data |-> air_data, qnh_set |-> qnh_set,
        baro_health_counter |-> baro_health_counter,
        state |-> state, hist |-> hist]

\* a history counter, one more
Count(n) == IF n < MaxCount THEN n + 1 ELSE n

\* state.h accessors
stateIsGlobalCoordinateValid(m) == m.state.valid

stateGetPositionLla_f_alt(m) == m.state.alt

\* stateSetAirspeed_f: one write of the airspeed slot
stateSetAirspeed_f(m, v) ==
  [m EXCEPT !.state.airspeed = v,
            !.hist.airspeed_writes = Count(@)]

\* ------------------------------------------------------------------------
\* Airspeed conversions (air_data.c:209-272)
\* ------------------------------------------------------------------------

\* sqrtf(Max(q * 2 / rho0, 0)), rho0 = 1.225 kg/m3; the result in dm/s
eas_from_dynamic_pressure(q) == sqrtf(Max((q * 8000) \div 49, 0))

\* sqrtf((P0 * (t + 274.15)) / (p * T0)), the result in 1/1000
\* x / 0 is +-inf or NaN, and the sqrtf of a negative ratio or of -inf is NaN
get_tas_factor(p, t) ==
  LET k == t + 27415
      abs_p == IF p < 0 THEN 0 - p ELSE p
      abs_k == IF k < 0 THEN 0 - k ELSE k
  IN  IF p = 0 THEN (IF k > 0 THEN FInf ELSE FNaN)
      ELSE IF k = 0 THEN 0
      ELSE IF (k < 0) # (p < 0) THEN FNaN
      ELSE sqrtf(RDiv(PPRZ_ISA_SEA_LEVEL_PRESSURE * 1000, abs_p)
                 * RDiv(abs_k * 1000, PPRZ_ISA_SEA_LEVEL_TEMP))

\* a conversion that reads no state: the default factor in place of the
\* stored one
tas_from_eas_stateless(m, eas) == FMul(AIR_DATA_TAS_FACTOR, eas)

\* air_data.tas_factor * eas
tas_from_eas(m, eas) == FMul(m.air_data.tas_factor, eas)

tas_from_dynamic_pressure(m, q) == tas_from_eas(m, eas_from_dynamic_pressure(q))

\* ------------------------------------------------------------------------
\* Sensor callbacks (air_data.c:94-131)
\* ------------------------------------------------------------------------

\* x / 100.f on a Pa value: x / 100 hPa, held as a count of 1/100 hPa
PaToHpa(x) == (x * 100) \div 100

\* x * 100.f on a count of 1/100 hPa: (x / 100) * 100 Pa
HpaToPa(x) == (x * 100) \div 100

\* air_data.c:96
abs_store(m, pressure) ==
  [m EXCEPT !.air_data.pressure = pressure,
            !.hist.abs_now = TRUE,
            !.hist.abs_rearm = m.air_data.amsl_baro_valid
                                 /\ m.baro_health_counter > 0]

\* the capture without the test of the position fix
abs_calc_qnh_any_fix(m) ==
  IF m.air_data.calc_qnh_once
  THEN LET h == stateGetPositionLla_f_alt(m)
       IN  [m EXCEPT
              !.air_data.qnh = PaToHpa(
                 pprz_isa_ref_pressure_of_height_full(m.air_data.pressure, h)),
              !.air_data.calc_qnh_once = FALSE,
              !.qnh_set = TRUE,
              !.hist.qnh_auto_writes = Count(@),
              !.hist.ext_lost = @ \/ (m.hist.qnh_src = "ext"),
              !.hist.qnh_src = "auto"]
  ELSE m

\* the capture without its calc_qnh_once = FALSE
abs_calc_qnh_stays_armed(m) ==
  IF m.air_data.calc_qnh_once /\ stateIsGlobalCoordinateValid(m)
  THEN LET h == stateGetPositionLla_f_alt(m)
       IN  [m EXCEPT
              !.air_data.qnh = PaToHpa(
                 pprz_isa_ref_pressure_of_height_full(m.air_data.pressure, h)),
              !.qnh_set = TRUE,
              !.hist.qnh_auto_writes = Count(@),
              !.hist.ext_lost = @ \/ (m.hist.qnh_src = "ext"),
              !.hist.qnh_src = "auto"]
  ELSE m

\* air_data.c:98-104
abs_calc_qnh(m) ==
  IF m.air_data.calc_qnh_once /\ stateIsGlobalCoordinateValid(m)
  THEN LET h == stateGetPositionLla_f_alt(m)
       IN  [m EXCEPT
              !.air_data.qnh = PaToHpa(
                 pprz_isa_ref_pressure_of_height_full(m.air_data.pressure, h)),
              !.air_data.calc_qnh_once = FALSE,
              !.qnh_set = TRUE,
              !.hist.qnh_auto_writes = Count(@),
              !.hist.ext_lost = @ \/ (m.hist.qnh_src = "ext"),
              !.hist.qnh_src = "auto"]
  ELSE m

\* the altitude computed whether calc_amsl_baro is set or not
abs_calc_amsl_any_flag(m) ==
  IF m.qnh_set
  THEN [m EXCEPT
          !.air_data.amsl_baro = pprz_isa_height_of_pressure_full(
             m.air_data.pressure, HpaToPa(m.air_data.qnh)),
          !.air_data.amsl_baro_valid = TRUE]
  ELSE m

\* the altitude computed whether QNH is known or not
abs_calc_amsl_any_qnh(m) ==
  IF m.air_data.calc_amsl_baro
  THEN [m EXCEPT
          !.air_data.amsl_baro = pprz_isa_height_of_pressure_full(
             m.air_data.pressure, HpaToPa(m.air_data.qnh)),
          !.air_data.amsl_baro_valid = TRUE]
  ELSE m

\* air_data.c:106-110
abs_calc_amsl(m) ==
  IF m.air_data.calc_amsl_baro /\ m.qnh_set
  THEN [m EXCEPT
          !.air_data.amsl_baro = pprz_isa_height_of_pressure_full(
             m.air_data.pressure, HpaToPa(m.air_data.qnh)),
          !.air_data.amsl_baro_valid = TRUE]
  ELSE m

\* the end of pressure_abs_cb without the reset of the counter
abs_reset_health_missing(m) ==
  [m EXCEPT !.hist.abs_seen = TRUE,
            !.hist.abs_valid = m.air_data.amsl_baro_valid,
            !.hist.ticks = 0]

\* air_data.c:112-113
abs_reset_health(m) ==
  [m EXCEPT !.baro_health_counter = BaroHealthyCount,
            !.hist.abs_seen = TRUE,
            !.hist.abs_valid = m.air_data.amsl_baro_valid,
            !.hist.ticks = 0]

\* the altitude recomputed before the capture of QNH
pressure_abs_cb_amsl_first(m, pressure) ==
  abs_reset_health(abs_calc_qnh(abs_calc_amsl(abs_store(m, pressure))))

\* air_data.c:94-114

pressure_abs_cb(m, pressure) ==
  abs_reset_health(abs_calc_amsl(abs_calc_qnh(abs_store(m, pressure))))

pressure_diff_cb(m, pressure) ==
  LET m1 == [m EXCEPT !.air_data.differential = pressure]
  IN  IF m1.air_data.calc_airspeed
      THEN LET m2 == [m1 EXCEPT !.air_data.airspeed =
                        tas_from_dynamic_pressure(m1, m1.air_data.differential)]
           IN  stateSetAirspeed_f(m2, m2.air_data.airspeed)
      ELSE m1

\* temperature_cb without the check of the baro health counter
temperature_cb_any_health(m, temp) ==
  LET m1 == [m EXCEPT !.air_data.temperature = temp]
  IN  IF m1.air_data.calc_tas_factor
      THEN [m1 EXCEPT !.air_data.tas_factor =
              get_tas_factor(m1.air_data.pressure, m1.air_data.temperature)]
      ELSE m1

temperature_cb(m, temp) ==
  LET m1 == [m EXCEPT !.air_data.temperature = temp]
  IN  IF m1.air_data.calc_tas_factor /\ m1.baro_health_counter > 0
      THEN [m1 EXCEPT !.air_data.tas_factor =
              get_tas_factor(m1.air_data.pressure, m1.air_data.temperature)]
      ELSE m1

\* ------------------------------------------------------------------------
\* Initialization (air_data.c:146-166)
\* ------------------------------------------------------------------------

\* AbiBindMsgX(id, ev, cb): cb joins the callbacks bound to message msg
AbiBindMsg(bindings, msg, cb) == [bindings EXCEPT ![msg] = @ \cup {cb}]

\* the three bindings of air_data_init, in the order of the code; the second
\* (air_data.c:160) binds pressure_diff_cb with AbiBindMsgBARO_ABS, and
\* nothing is bound to BARO_DIFF
air_data_init_bindings ==
  LET b0 == [msg \in AbiMessages |-> {}]
      b1 == AbiBindMsg(b0, "BARO_ABS", "pressure_abs_cb")
      b2 == AbiBindMsg(b1, "BARO_ABS", "pressure_diff_cb")
      b3 == AbiBindMsg(b2, "TEMPERATURE", "temperature_cb")
  IN  b3

\* the struct has static storage: the fields air_data_init leaves alone are 0
air_data_init(calc_airspeed, calc_tas_factor, calc_amsl_baro) ==
  [pressure |-> 0, differential |-> 0, temperature |-> 0, airspeed |-> 0,
   qnh |-> 0, amsl_baro |-> 0,
   calc_airspeed |-> calc_airspeed,
   calc_tas_factor |-> calc_tas_factor,
   calc_amsl_baro |-> calc_amsl_baro,
   tas_factor |-> AIR_DATA_TAS_FACTOR,
   calc_qnh_once |-> TRUE,
   amsl_baro_valid |-> FALSE]

HistInit ==
  [airspeed_writes |-> 0,   \* stateSetAirspeed_f calls so far
   qnh_auto_writes |-> 0,   \* auto captures of air_data.qnh so far
   qnh_src |-> "none",      \* who wrote air_data.qnh last
   ext_lost |-> FALSE,      \* an auto capture has overwritten a SetQNH value
   abs_seen |-> FALSE,      \* pressure_abs_cb has run
   abs_valid |-> FALSE,     \* its last run left amsl_baro_valid TRUE
   abs_now |-> FALSE,       \* the last operation ran pressure_abs_cb,
   abs_rearm |-> FALSE,     \* which found amsl_baro_valid TRUE and the
                            \* counter above 0
   ticks |-> 0]             \* air_data_periodic calls since pressure_abs_cb
                            \* last ran (0 until it runs)

\* the AIR_DATA_CALC_* switches are compile-time options: any setting of them
Init ==
  /\ \E ca \in BOOLEAN, ct \in BOOLEAN, cb \in BOOLEAN :
       air_data = air_data_init(ca, ct, cb)
  /\ qnh_set = FALSE
  /\ baro_health_counter = 0
  /\ abi = air_data_init_bindings
  /\ \E v \in BOOLEAN, h \in AltValues :
       state = [valid |-> v, alt |-> h, airspeed |-> 0]
  /\ hist = HistInit

\* ------------------------------------------------------------------------
\* Operations
\* ------------------------------------------------------------------------

\* every operation starts with the record of the last operation cleared
Enter(m) == [m EXCEPT !.hist.abs_now = FALSE, !.hist.abs_rearm = FALSE]

Commit(m) ==
  /\ air_data' = m.air_data
  /\ qnh_set' = m.qnh_set
  /\ baro_health_counter' = m.baro_health_counter
  /\ state' = m.state
  /\ hist' = m.hist
  /\ abi' = abi

RunCallback(cb, m, v) ==
  CASE cb = "pressure_abs_cb" -> pressure_abs_cb(m, v)
    [] cb = "pressure_diff_cb" -> pressure_diff_cb(m, v)
    [] cb = "temperature_cb" -> temperature_cb(m, v)

RECURSIVE RunCallbacks(_, _, _)
RunCallbacks(cbs, m, v) ==
  IF cbs = << >> THEN m
  ELSE RunCallbacks(Tail(cbs), RunCallback(Head(cbs), m, v), v)

\* the orders in which the callbacks bound to one message can be called
Orders(S) ==
  {o \in [1..Cardinality(S) -> S] : \A i, j \in DOMAIN o : o[i] = o[j] => i = j}

\* AbiSendMsgX(sender, &v): every callback bound to msg runs on v
AbiSendMsg(msg, v) ==
  \E o \in Orders(abi[msg]) : Commit(RunCallbacks(o, Enter(Mem), v))

AbiSendMsgBARO_ABS ==
  /\ \E p \in AbsSamples : AbiSendMsg("BARO_ABS", p)

AbiSendMsgBARO_DIFF ==
  /\ \E p \in DiffSamples : AbiSendMsg("BARO_DIFF", p)

AbiSendMsgTEMPERATURE ==
  /\ \E t \in TempSamples : AbiSendMsg("TEMPERATURE", t)

\* the history's part of a watchdog tick
Tick(m0, m1) ==
  [m1 EXCEPT !.hist.ticks =
     IF m0.hist.abs_seen /\ @ <= BaroHealthyCount THEN @ + 1 ELSE @]

\* a watchdog that counts down without the test of the counter
periodic_unguarded(m) ==
  Tick(m, [m EXCEPT !.baro_health_counter = (@ - 1) % 256,
                    !.air_data.amsl_baro_valid =
                       IF m.baro_health_counter > 0 THEN @ ELSE FALSE])

\* a watchdog that counts down and never invalidates
periodic_no_invalidate(m) ==
  Tick(m, IF m.baro_health_counter > 0
          THEN [m EXCEPT !.baro_health_counter = (@ - 1) % 256]
          ELSE m)

\* a watchdog that invalidates in the tick that brings the counter to zero
periodic_at_zero(m) ==
  Tick(m, IF m.baro_health_counter > 1
          THEN [m EXCEPT !.baro_health_counter = (@ - 1) % 256]
          ELSE [m EXCEPT !.baro_health_counter = 0,
                         !.air_data.amsl_baro_valid = FALSE])

\* air_data.c:178-187; hist.ticks stops counting at BaroHealthyCount + 1
periodic(m) ==
  LET m1 == IF m.baro_health_counter > 0
            THEN [m EXCEPT !.baro_health_counter = (@ - 1) % 256]
            ELSE [m EXCEPT !.air_data.amsl_baro_valid = FALSE]
  IN  Tick(m, m1)

air_data_periodic ==
  /\ Commit(periodic(Enter(Mem)))

\* a SetQNH that recomputes a valid altitude with the new QNH
SetQNH_recomputes(m, qnh) ==
  [m EXCEPT !.air_data.qnh = qnh,
            !.air_data.amsl_baro =
               IF m.air_data.amsl_baro_valid
               THEN pprz_isa_height_of_pressure_full(
                      m.air_data.pressure, HpaToPa(qnh))
               ELSE @,
            !.qnh_set = TRUE,
            !.hist.qnh_src = "ext"]

\* a SetQNH that withdraws the altitude computed with the former QNH
SetQNH_invalidates(m, qnh) ==
  [m EXCEPT !.air_data.qnh = qnh,
            !.air_data.amsl_baro_valid = FALSE,
            !.qnh_set = TRUE,
            !.hist.qnh_src = "ext"]

\* a SetQNH that also disarms the auto capture
SetQNH_disarms(m, qnh) ==
  [m EXCEPT !.air_data.qnh = qnh,
            !.air_data.calc_qnh_once = FALSE,
            !.qnh_set = TRUE,
            !.hist.qnh_src = "ext"]

\* air_data.c:189-193
SetQNH(m, qnh) ==
  [m EXCEPT !.air_data.qnh = qnh,
            !.qnh_set = TRUE,
            !.hist.qnh_src = "ext"]

air_data_SetQNH ==
  /\ \E qnh \in QnhValues : Commit(SetQNH(Enter(Mem), qnh))

\* a get_amsl without the check of amsl_baro_valid
get_amsl_unchecked(m) == m.air_data.amsl_baro

\* air_data.c:168-176
get_amsl(m) ==
  IF m.air_data.amsl_baro_valid THEN m.air_data.amsl_baro
  ELSE stateGetPositionLla_f_alt(m)

\* a read: the caller gets get_amsl(Mem), the memory stays as it is
air_data_get_amsl ==
  /\ get_amsl(Mem) \in Int
  /\ Commit(Enter(Mem))

\* the position filter updates the global position of state.h
StateUpdate ==
  /\ \E v \in BOOLEAN, h \in AltValues :
       Commit([Enter(Mem) EXCEPT !.state.valid = v, !.state.alt = h])

Next ==
  \/ AbiSendMsgBARO_ABS
  \/ AbiSendMsgBARO_DIFF
  \/ AbiSendMsgTEMPERATURE
  \/ air_data_periodic
  \/ air_data_SetQNH
  \/ air_data_get_amsl
  \/ StateUpdate

Spec == Init /\ [][Next]_vars

\* the scheduler keeps calling air_data_periodic
FairSpec == Spec /\ WF_vars(air_data_periodic)

\* ------------------------------------------------------------------------
\* Properties
\* ------------------------------------------------------------------------

Valid == air_data.amsl_baro_valid

\* the step is an operation that ran pressure_abs_cb
AbsStep == hist.abs_now'

\* C1, as the specification states it: amsl_baro_valid is TRUE only if QNH
\* is known and the watchdog counter is nonzero.
C1_AsStated == Valid => (qnh_set /\ baro_health_counter # 0)

\* C1, amended: amsl_baro_valid is TRUE only if QNH is known and the watchdog
\* counter is nonzero or has reached zero in the last of BaroHealthyCount
\* ticks since the last absolute pressure sample, no tick having run since.
C1_ValidOnlyIfKnownAndFresh ==
  Valid => /\ qnh_set
           /\ \/ baro_health_counter # 0
              \/ hist.abs_seen /\ hist.ticks = BaroHealthyCount

\* C1: the altitude is still valid with the counter at zero
C1_Witness == Valid /\ qnh_set /\ baro_health_counter = 0

\* C2, as the specification states it: BaroHealthyCount ticks after an
\* absolute pressure sample that set amsl_baro_valid, it is FALSE.
C2_AsStated ==
  (hist.abs_valid /\ hist.ticks = BaroHealthyCount) => ~Valid

\* C2, amended: after an absolute pressure sample that set amsl_baro_valid,
\* it is TRUE through the first BaroHealthyCount ticks without a new sample
\* and FALSE from tick BaroHealthyCount + 1 on: it changes from TRUE to FALSE
\* exactly once in the silent period, in tick BaroHealthyCount + 1.
C2_FalseAfterOneMoreTick ==
  hist.abs_valid =>
    /\ Valid <=> hist.ticks <= BaroHealthyCount
    /\ baro_health_counter = Max(BaroHealthyCount - hist.ticks, 0)

\* C2: the silent period has lasted BaroHealthyCount + 1 ticks
C2_Witness ==
  hist.abs_valid /\ hist.ticks = BaroHealthyCount + 1 /\ ~Valid

\* C3: when absolute pressure samples stop and the tick keeps running,
\* amsl_baro_valid becomes FALSE, after BaroHealthyCount + 1 ticks at the
\* latest, and no operation but an absolute pressure sample makes it TRUE.
C3_SensorLoss ==
  /\ [](hist.ticks >= BaroHealthyCount + 1 => ~Valid)
  /\ [][(~Valid /\ ~AbsStep) => ~Valid']_vars
  /\ (<>[]~hist.abs_now) => <>[]~Valid

\* C3: the altitude, valid once, has timed out and QNH was set again since
C3_Witness ==
  /\ hist.abs_valid /\ ~Valid
  /\ hist.ticks = BaroHealthyCount + 1
  /\ hist.qnh_src = "ext" /\ air_data.temperature # 0

\* C4: with calc_amsl_baro and QNH known, an absolute pressure sample sets
\* the counter to BaroHealthyCount and amsl_baro_valid to TRUE, and in fewer
\* than BaroHealthyCount ticks after it the counter is still above zero and
\* amsl_baro_valid still TRUE.
C4_SampleKeepsValid ==
  /\ [][(AbsStep /\ air_data.calc_amsl_baro /\ qnh_set)
          => (baro_health_counter' = BaroHealthyCount /\ Valid')]_vars
  /\ []((hist.abs_valid /\ hist.ticks < BaroHealthyCount)
          => (Valid /\ baro_health_counter = BaroHealthyCount - hist.ticks))
  /\ [][(Valid /\ hist.ticks' < BaroHealthyCount) => Valid']_vars

\* C4: a sample has just found the altitude valid, the counter running
C4_Witness ==
  /\ hist.abs_rearm /\ Valid
  /\ baro_health_counter = BaroHealthyCount

\* C5: calc_qnh_once never returns to TRUE, air_data.qnh is captured at most
\* once, by the absolute pressure sample that finds calc_qnh_once TRUE and a
\* valid fix, and every absolute pressure sample after it leaves qnh alone.
C5_CaptureOnce ==
  /\ [][~air_data.calc_qnh_once => ~air_data.calc_qnh_once']_vars
  /\ [](hist.qnh_auto_writes <= 1
          /\ (hist.qnh_auto_writes = 1 <=> ~air_data.calc_qnh_once))
  /\ [][(AbsStep /\ state.valid /\ air_data.calc_qnh_once)
          => (hist.qnh_auto_writes' = 1 /\ ~air_data.calc_qnh_once')]_vars
  /\ [][(AbsStep /\ ~air_data.calc_qnh_once)
          => (air_data.qnh' = air_data.qnh
                /\ hist.qnh_auto_writes' = hist.qnh_auto_writes)]_vars

\* C5: a sample arrived with a valid fix after the capture
C5_Witness ==
  /\ hist.qnh_auto_writes = 1 /\ hist.qnh_src = "auto"
  /\ hist.abs_rearm /\ state.valid

\* C6: SetQNH(v) sets qnh to v and marks QNH known and leaves calc_qnh_once
\* alone; an absolute pressure sample that then finds calc_qnh_once TRUE and
\* a valid fix overwrites qnh with the captured value.
C6_SetQnhOverwritten ==
  /\ [][air_data_SetQNH
          => (air_data.qnh' \in QnhValues /\ qnh_set'
                /\ air_data.calc_qnh_once' = air_data.calc_qnh_once)]_vars
  /\ [][(AbsStep /\ hist.qnh_src = "ext"
           /\ air_data.calc_qnh_once /\ state.valid)
          => (air_data.qnh' = PaToHpa(pprz_isa_ref_pressure_of_height_full(
                                 air_data.pressure', state.alt))
                /\ hist.ext_lost' /\ hist.qnh_src' = "auto")]_vars
  /\ [](hist.ext_lost => ~air_data.calc_qnh_once)

\* C6: the value SetQNH gave is gone
C6_Witness ==
  hist.ext_lost /\ hist.qnh_src = "auto" /\ air_data.qnh \notin QnhValues

\* C7, as the specification states it: each message reaches its own callback
\* only: BARO_ABS leaves differential, airspeed and the airspeed slot alone,
\* BARO_DIFF stores differential, TEMPERATURE stores temperature alone.
C7_AsStated ==
  /\ [][AbiSendMsgBARO_ABS
          => (air_data.differential' = air_data.differential
                /\ air_data.airspeed' = air_data.airspeed
                /\ state.airspeed' = state.airspeed
                /\ hist.airspeed_writes' = hist.airspeed_writes)]_vars
  /\ [][\A p \in DiffSamples :
          AbiSendMsg("BARO_DIFF", p) => air_data.differential' = p]_vars
  /\ [][\A t \in TempSamples :
          AbiSendMsg("TEMPERATURE", t)
            => (air_data.temperature' = t
                  /\ air_data.pressure' = air_data.pressure
                  /\ air_data.differential' = air_data.differential
                  /\ hist.airspeed_writes' = hist.airspeed_writes)]_vars

\* C8: get_amsl returns amsl_baro when amsl_baro_valid and the altitude of
\* the global position otherwise; before the first absolute pressure sample
\* amsl_baro_valid is FALSE and it returns the altitude of the position.
C8_AmslOrFallback ==
  /\ get_amsl(Mem) = (IF Valid THEN air_data.amsl_baro ELSE state.alt)
  /\ ~hist.abs_seen => (~Valid /\ get_amsl(Mem) = state.alt)

\* C8: the barometric altitude is returned and differs from the fallback
C8_Witness ==
  /\ Valid /\ air_data.amsl_baro # state.alt
  /\ get_amsl(Mem) = air_data.amsl_baro

\* C9: a step changes tas_factor only if it is a TEMPERATURE message taken
\* with calc_tas_factor set and the watchdog counter above zero; before the
\* first absolute pressure sample tas_factor keeps its initial value.
C9_TasFactorFrame ==
  /\ [][air_data.tas_factor' # air_data.tas_factor
          => (air_data.calc_tas_factor /\ baro_health_counter > 0
                /\ AbiSendMsgTEMPERATURE)]_vars
  /\ [](~hist.abs_seen => air_data.tas_factor = AIR_DATA_TAS_FACTOR)

\* C9: a temperature sample has changed tas_factor
C9_Witness ==
  /\ air_data.tas_factor # AIR_DATA_TAS_FACTOR
  /\ air_data.temperature \in TempSamples
  /\ air_data.calc_tas_factor

\* C10, as the specification states it: every BARO_DIFF sample sets airspeed
\* to tas_factor * EAS(sample) and writes it to the airspeed slot once when
\* calc_airspeed is set, and leaves both alone otherwise; no other operation
\* writes the airspeed slot.
C10_AsStated ==
  /\ [][\A p \in DiffSamples :
          AbiSendMsg("BARO_DIFF", p)
            => IF air_data.calc_airspeed
               THEN /\ air_data.airspeed' =
                         FMul(air_data.tas_factor, eas_from_dynamic_pressure(p))
                    /\ state.airspeed' = air_data.airspeed'
                    /\ hist.airspeed_writes' = Count(hist.airspeed_writes)
               ELSE /\ air_data.airspeed' = air_data.airspeed
                    /\ state.airspeed' = state.airspeed
                    /\ hist.airspeed_writes' = hist.airspeed_writes]_vars
  /\ [][~AbiSendMsgBARO_DIFF
          => (state.airspeed' = state.airspeed
                /\ hist.airspeed_writes' = hist.airspeed_writes)]_vars

\* C11: as long as no auto capture has happened and air_data_SetQNH has not
\* been called, qnh_set is FALSE and amsl_baro_valid is FALSE, whatever
\* samples and ticks have occurred.
C11_InvalidWhileQnhUnknown ==
  /\ hist.qnh_src = "none" <=> ~qnh_set
  /\ ~qnh_set => ~Valid

\* C11: samples of all kinds and ticks have occurred with calc_amsl_baro set
\* and QNH still unknown
C11_Witness ==
  /\ ~qnh_set /\ air_data.calc_amsl_baro
  /\ hist.abs_seen /\ air_data.pressure > 0
  /\ air_data.temperature \in TempSamples
  /\ hist.ticks > 0

\* dynamic pressures the conversions are evaluated on
DynamicPressures == DiffSamples \cup AbsSamples

\* C12, as the specification states it: the conversions to true airspeed do
\* not depend on the state: in every state they return, for the same
\* argument, what they return in the initial state.
C12_AsStated ==
  \A q \in DynamicPressures :
    /\ tas_from_eas(Mem, eas_from_dynamic_pressure(q))
         = FMul(AIR_DATA_TAS_FACTOR, eas_from_dynamic_pressure(q))
    /\ tas_from_dynamic_pressure(Mem, q)
         = FMul(AIR_DATA_TAS_FACTOR, eas_from_dynamic_pressure(q))

\* C12, amended: tas_from_eas and tas_from_dynamic_pressure take no factor;
\* they multiply by the tas_factor stored at the moment of the call, and the
\* airspeed pressure_diff_cb stores and pushes is that product.
C12_TasUsesStoredFactor ==
  /\ [](\A q \in DynamicPressures :
          tas_from_dynamic_pressure(Mem, q)
            = FMul(air_data.tas_factor, eas_from_dynamic_pressure(q)))
  /\ [][(air_data.calc_airspeed /\ AbsStep /\ abi = air_data_init_bindings)
          => (air_data.airspeed' =
                FMul(air_data.tas_factor,
                     eas_from_dynamic_pressure(air_data.differential'))
              /\ state.airspeed' = air_data.airspeed')]_vars

\* C12: an airspeed computed with a stored factor other than the initial one
C12_Witness ==
  /\ air_data.tas_factor \notin {AIR_DATA_TAS_FACTOR, FInf, FNaN}
  /\ air_data.differential > 0
  /\ air_data.airspeed =
       FMul(air_data.tas_factor,
            eas_from_dynamic_pressure(air_data.differential))
  /\ air_data.airspeed #
       FMul(AIR_DATA_TAS_FACTOR,
            eas_from_dynamic_pressure(air_data.differential))

\* C13: calc_qnh_once is cleared only by a pressure_abs_cb that runs with a
\* valid position fix; a pressure_abs_cb without a valid fix leaves qnh,
\* calc_qnh_once and qnh_set as they were; a pressure_abs_cb that finds
\* calc_qnh_once set and a valid fix captures, whether or not earlier samples
\* were received.
C13_CaptureNeedsFix ==
  [][/\ (air_data.calc_qnh_once /\ ~air_data.calc_qnh_once')
          => (AbsStep /\ stateIsGlobalCoordinateValid(Mem))
     /\ (AbsStep /\ ~stateIsGlobalCoordinateValid(Mem))
          => (/\ air_data.qnh' = air_data.qnh
              /\ air_data.calc_qnh_once' = air_data.calc_qnh_once
              /\ qnh_set' = qnh_set)
     /\ (AbsStep /\ air_data.calc_qnh_once
           /\ stateIsGlobalCoordinateValid(Mem))
          => (/\ ~air_data.calc_qnh_once'
              /\ qnh_set'
              /\ hist.qnh_src' = "auto"
              /\ air_data.qnh' = PaToHpa(
                   pprz_isa_ref_pressure_of_height_full(
                      air_data.pressure', stateGetPositionLla_f_alt(Mem))))
    ]_vars

\* C13: samples were received without a fix, the capture is still armed and
\* a fix is now there: the next sample is a later sample that captures
C13_Witness ==
  /\ hist.abs_seen /\ air_data.pressure > 0
  /\ air_data.calc_qnh_once
  /\ stateIsGlobalCoordinateValid(Mem)

\* C14: amsl_baro_valid goes from TRUE to FALSE only in an air_data_periodic
\* that finds baro_health_counter at zero; no callback, air_data_SetQNH or
\* air_data_get_amsl clears it.
C14_OnlyWatchdogInvalidates ==
  [][(Valid /\ ~Valid')
       => (baro_health_counter = 0 /\ air_data_periodic)]_vars

\* C14: an altitude that the last sample left valid and the watchdog has
\* since invalidated
C14_Witness ==
  /\ ~Valid /\ hist.abs_valid
  /\ baro_health_counter = 0
  /\ hist.ticks = BaroHealthyCount + 1

\* C15: an air_data_periodic either decrements a positive
\* baro_health_counter and leaves amsl_baro_valid as it is, or finds the
\* counter at zero, leaves it there and clears amsl_baro_valid; it leaves
\* every other field of air_data, qnh_set and the state interface unchanged.
C15_TickFrame ==
  [][air_data_periodic
       => (/\ IF baro_health_counter > 0
              THEN /\ baro_health_counter' = baro_health_counter - 1
                   /\ Valid' = Valid
              ELSE /\ baro_health_counter' = 0
                   /\ ~Valid'
           /\ [air_data' EXCEPT !.amsl_baro_valid = Valid] = air_data
           /\ qnh_set' = qnh_set
           /\ state' = state
           /\ abi' = abi)]_vars

\* C15: the sensors are lost, the watchdog has run out, and the airspeed and
\* the factor computed from the last samples are still there
C15_Witness ==
  /\ hist.ticks = BaroHealthyCount + 1
  /\ baro_health_counter = 0
  /\ air_data.airspeed > 0
  /\ air_data.tas_factor \notin {AIR_DATA_TAS_FACTOR, FInf, FNaN}
  /\ air_data.temperature \in TempSamples

\* a pressure_abs_cb that captures QNH with calc_amsl_baro enabled
CaptureStep ==
  /\ AbsStep
  /\ air_data.calc_qnh_once /\ stateIsGlobalCoordinateValid(Mem)
  /\ air_data.calc_amsl_baro

\* the altitude of pressure p under the QNH captured from p at height h
RoundTrip(p, h) ==
  pprz_isa_height_of_pressure_full(
    p, HpaToPa(PaToHpa(pprz_isa_ref_pressure_of_height_full(p, h))))

C17_AsStated ==
  [][(air_data.calc_tas_factor /\ baro_health_counter > 0
        /\ AbiSendMsgTEMPERATURE)
       => air_data.pressure > 0]_vars

\* amsl_baro is the altitude of the stored pressure under the stored qnh
AmslConsistent ==
  air_data.amsl_baro =
    pprz_isa_height_of_pressure_full(air_data.pressure, HpaToPa(air_data.qnh))

\* C18, as the specification states it: whenever amsl_baro_valid is TRUE,
\* amsl_baro is the altitude of the stored pressure under the stored qnh.
C18_AsStated == Valid => AmslConsistent

\* C18, amended: a valid amsl_baro is the altitude of the stored pressure
\* under the stored qnh at the end of every pressure_abs_cb; only
\* air_data_SetQNH breaks that relation, by changing qnh while it leaves
\* pressure, amsl_baro and amsl_baro_valid as they are, until the next
\* pressure_abs_cb restores it.
C18_ConsistentUntilSetQnh ==
  [][/\ (AbsStep /\ Valid') => AmslConsistent'
     /\ (Valid /\ AmslConsistent /\ Valid' /\ ~AmslConsistent')
          => air_data_SetQNH
     /\ (~AbsStep /\ air_data.qnh' # air_data.qnh)
          => (/\ air_data.pressure' = air_data.pressure
              /\ air_data.amsl_baro' = air_data.amsl_baro
              /\ Valid' = Valid)]_vars

\* C18: a valid altitude computed under the captured QNH, and a qnh that
\* air_data_SetQNH has replaced since
C18_Witness ==
  /\ Valid /\ ~AmslConsistent
  /\ hist.qnh_src = "ext"
  /\ air_data.pressure > 0

\* C19: with calc_amsl_baro disabled, amsl_baro_valid is FALSE in every
\* state and air_data_get_amsl returns the altitude of the position fix;
\* pressure_abs_cb still resets baro_health_counter, and temperature_cb
\* still recomputes tas_factor exactly when calc_tas_factor is set and the
\* counter is above zero.
C19_AmslDisabled ==
  /\ [](~air_data.calc_amsl_baro
          => (~Valid /\ get_amsl(Mem) = stateGetPositionLla_f_alt(Mem)))
  /\ [][(~air_data.calc_amsl_baro /\ AbsStep)
          => baro_health_counter' = BaroHealthyCount]_vars
  /\ [][(~air_data.calc_amsl_baro /\ AbiSendMsgTEMPERATURE)
          => air_data.tas_factor' =
               IF air_data.calc_tas_factor /\ baro_health_counter > 0
               THEN get_tas_factor(air_data.pressure, air_data.temperature')
               ELSE air_data.tas_factor]_vars

\* C19: calc_amsl_baro disabled, QNH captured, the counter reset by a
\* sample and a factor computed under it
C19_Witness ==
  /\ ~air_data.calc_amsl_baro
  /\ qnh_set /\ hist.qnh_src = "auto"
  /\ baro_health_counter > 0 /\ hist.ticks > 0
  /\ air_data.tas_factor \notin {AIR_DATA_TAS_FACTOR, FInf, FNaN}
  /\ stateGetPositionLla_f_alt(Mem) > 0

\* C20: baro_health_counter is within 0..10 in every state and 0 until the
\* first pressure_abs_cb; every pressure_abs_cb leaves it at 10; any other
\* change of it is an air_data_periodic that takes one off a positive
\* counter, so it never wraps below zero.
C20_CounterRange ==
  /\ [](/\ baro_health_counter \in 0..BaroHealthyCount
        /\ ~hist.abs_seen => baro_health_counter = 0)
  /\ [][AbsStep => baro_health_counter' = BaroHealthyCount]_vars
  /\ [][(~AbsStep /\ baro_health_counter' # baro_health_counter)
          => (/\ baro_health_counter > 0
              /\ baro_health_counter' = baro_health_counter - 1
              /\ air_data_periodic)]_vars

\* C20: the counter run down to zero by the ticks after a sample, and a
\* further tick taken at zero, with the altitude computation disabled
C20_Witness ==
  /\ hist.abs_seen /\ ~air_data.calc_amsl_baro
  /\ hist.ticks = BaroHealthyCount + 1
  /\ baro_health_counter = 0

=============================================================================
